---- MODULE Spec2Model ----
(***************************************************************************)
(* The portfolio store of the portfolio tracker (src/src/store/            *)
(* portfolioStore.ts): the list of portfolios, the active holdings, the    *)
(* valuation snapshots, and the operations that change them.               *)
(*                                                                         *)
(* Numbers are JavaScript numbers; they are modelled as exact rationals    *)
(* [n, d] (d > 0, lowest terms), with `undefined` and NaN as two extra     *)
(* values of the same shape.  Strings built from a prefix and a number     *)
(* (`asset-${Date.now()}`) are modelled as the pair <<prefix, number>>.    *)
(***************************************************************************)
EXTENDS Integers, Sequences, FiniteSets, TLC

VARIABLES
    portfolios,          \* Portfolio[] (meaningful when portfoliosKind = "array")
    portfoliosKind,      \* the JavaScript type held by `portfolios`
    currentPortfolioId,
    assets,              \* the active holdings
    snapshots,           \* PortfolioSnapshot[] (meaningful when snapshotsKind = "array")
    snapshotsKind,       \* the JavaScript type held by `snapshots`
    isLoading,
    isRefreshing,
    error,
    lastRefresh,
    now,                 \* Date.now()
    nops,                \* number of store calls made so far
    call,                \* the last call: operation, argument, what it threw
    perf,                \* what the last getPerformanceData returned
    refreshes,           \* the refreshPrices calls awaiting their price fetches
    requested,           \* the requests the last call handed to the API client
    auth,                \* the authentication store (useAuthStore)
    theme                \* the theme store (useThemeStore)

vars == <<portfolios, portfoliosKind, currentPortfolioId, assets, snapshots,
          snapshotsKind, isLoading, isRefreshing, error, lastRefresh, now,
          nops, call, perf, refreshes, requested, auth, theme>>

\* the portfolio store, apart from the bookkeeping of calls
portfolioVars == <<portfolios, portfoliosKind, currentPortfolioId, assets, snapshots,
                   snapshotsKind, isLoading, isRefreshing, error, lastRefresh, perf,
                   refreshes>>

-----------------------------------------------------------------------------
(* Bounds of the model *)

MaxOps == 3            \* store calls in one behaviour
MaxClock == 1          \* clock ticks in one behaviour of Spec
MaxPortfolios == 3     \* portfolios created in one list
DayTicks == 2          \* clock ticks in one day (24*60*60*1000 ms in the code)
MaxInFlight == 2       \* refreshPrices calls awaiting their fetches at one time

(* Program constants *)

SnapshotLimit == 365   \* slice(-365)
SampleDays == 365      \* for (let i = 365; i >= 0; i--)
BaseValue == 40000
StartTime == 1000      \* Date.now() when the store is constructed

-----------------------------------------------------------------------------
(* JavaScript numbers *)

RECURSIVE GCD(_, _)
GCD(a, b) == IF b = 0 THEN a ELSE GCD(b, a % b)

Abs(x) == IF x < 0 THEN -x ELSE x

NaN == [n |-> 0, d |-> 0]
Undefined == [n |-> 0, d |-> -1]

\* the number n/d
Num(n, d) ==
    IF d = 0 THEN (IF n = 0 THEN NaN ELSE [n |-> IF n > 0 THEN 1 ELSE -1, d |-> 0])
    ELSE LET g == GCD(Abs(n), Abs(d))
         IN  IF d < 0 THEN [n |-> (-n) \div g, d |-> (-d) \div g]
                      ELSE [n |-> n \div g, d |-> d \div g]

Z(n) == [n |-> n, d |-> 1]

IsNumber(x) == x.d > 0

Add(a, b) == IF IsNumber(a) /\ IsNumber(b) THEN Num(a.n * b.d + b.n * a.d, a.d * b.d) ELSE NaN
Sub(a, b) == IF IsNumber(a) /\ IsNumber(b) THEN Num(a.n * b.d - b.n * a.d, a.d * b.d) ELSE NaN
Mul(a, b) == IF IsNumber(a) /\ IsNumber(b) THEN Num(a.n * b.n, a.d * b.d) ELSE NaN
Div(a, b) == IF IsNumber(a) /\ IsNumber(b) THEN Num(a.n * b.d, a.d * b.n) ELSE NaN
Gt(a, b)  == IsNumber(a) /\ IsNumber(b) /\ a.n * b.d > b.n * a.d
Geq(a, b) == IsNumber(a) /\ IsNumber(b) /\ a.n * b.d >= b.n * a.d

\* truthiness of a number or undefined: 0, NaN and undefined are falsy
Truthy(x) == x.n # 0

\* a || b
Or(a, b) == IF Truthy(a) THEN a ELSE b

\* x !== 0
NotZero(x) == x # Z(0)

-----------------------------------------------------------------------------
(* Sequences *)

\* Array.prototype.findIndex, given the result of the test on each element:
\* the first index whose test holds, 0 when none does (JavaScript's -1)
FindIndex(test) ==
    IF \E i \in DOMAIN test : test[i]
    THEN CHOOSE i \in DOMAIN test : test[i] /\ \A j \in 1..(i - 1) : ~test[j]
    ELSE 0

\* Array.prototype.slice(-k)
SliceLast(s, k) ==
    IF Len(s) <= k THEN s ELSE SubSeq(s, Len(s) - k + 1, Len(s))

RECURSIVE SumSeq(_, _)
\* reduce((sum, x) => sum + x, 0) over the numbers s[1..k], left to right
SumSeq(s, k) ==
    IF k = 0 THEN Z(0) ELSE Add(SumSeq(s, k - 1), s[k])

-----------------------------------------------------------------------------
(* Data *)

DefaultId == <<"default", 0>>

DefaultPortfolio == [id |-> DefaultId, assets |-> <<>>]

sampleAssets ==
    << [id |-> <<"", 1>>, ticker |-> "AAPL", quantity |-> Z(10),
        currentPrice |-> Num(381, 2), totalValue |-> Z(1905),
        priceChange |-> Num(5, 2), priceChangePercent |-> Num(133, 100),
        averagePrice |-> Z(185)],
       [id |-> <<"", 2>>, ticker |-> "BTC", quantity |-> Num(1, 2),
        currentPrice |-> Z(45000), totalValue |-> Z(22500),
        priceChange |-> Z(-1000), priceChangePercent |-> Num(-217, 100),
        averagePrice |-> Z(42000)],
       [id |-> <<"", 3>>, ticker |-> "ETH", quantity |-> Z(5),
        currentPrice |-> Z(3200), totalValue |-> Z(16000),
        priceChange |-> Z(150), priceChangePercent |-> Num(123, 25),
        averagePrice |-> Z(2800)] >>

\* generateSampleSnapshots: one entry per day from SampleDays days ago to today;
\* noise is the sum of the random and trend terms, dailyChange the random daily term
generateSampleSnapshots(t, noise, dailyChange) ==
    [k \in 1..(SampleDays + 1) |->
        LET i == SampleDays + 1 - k
            totalValue == Mul(Z(BaseValue), Add(Z(1), noise))
        IN  [id |-> <<"snapshot", i>>,
             totalValue |-> totalValue,
             totalCost |-> Mul(Z(BaseValue), Num(9, 10)),
             timestamp |-> t - i * DayTicks,
             timestampType |-> "Date",
             dayChange |-> Mul(totalValue, dailyChange),
             dayChangePercent |-> Mul(dailyChange, Z(100))]]

\* no user (null), with the shape of a user
NoUser == [id |-> <<"", 0>>, email |-> "", provider |-> "none"]

\* useAuthStore as created; `returned` is what the last call of the store
\* returned, "none" before any call
AuthInit ==
    [user |-> NoUser, isAuthenticated |-> FALSE, isLoading |-> FALSE, returned |-> "none"]

\* a Theme is one of the four palettes, built for an accent colour
Theme(palette, accentColor) == [palette |-> palette, accentColor |-> accentColor]

defaultConfig == [themeType |-> "system", accentColor |-> "Blue"]

\* useThemeStore as created, on a device whose colour scheme is light
ThemeInit ==
    [config |-> defaultConfig,
     currentTheme |-> Theme("light", defaultConfig.accentColor),
     systemColorScheme |-> "light",
     isPremiumUser |-> FALSE]

-----------------------------------------------------------------------------
(* Initial state: the store as constructed *)

Init ==
    /\ portfolios = <<DefaultPortfolio>>
    /\ portfoliosKind = "array"
    /\ currentPortfolioId = DefaultId
    /\ assets = <<>>
    /\ snapshots = <<>>
    /\ snapshotsKind = "array"
    /\ isLoading = FALSE
    /\ isRefreshing = FALSE
    /\ error = "null"
    /\ lastRefresh = -1
    /\ now = StartTime
    /\ nops = 0
    /\ call = [op |-> "init", arg |-> <<>>, thrown |-> "none"]
    /\ perf = <<>>
    /\ refreshes = <<>>
    /\ requested = <<>>
    /\ auth = AuthInit
    /\ theme = ThemeInit

-----------------------------------------------------------------------------
(* Bookkeeping of a call: every store call counts, and leaves what it was *)

\* the price request of one holding (line 380, line 451)
PriceRequest(asset) == [api |-> "getAssetPrice", id |-> asset.id]

\* The identifiers that the try block of addAsset (lines 278-290) can read:
\* its own `currentPortfolioId`, and what the enclosing functions bind.  The
\* `newAsset` of line 258 is a const of the else block inside the set callback.
addAssetTryScope == {"currentPortfolioId", "assetData", "set", "get", "APIClient"}

\* The try block of addAsset.  The arguments of addAssetToPortfolio are
\* evaluated before the call; reading an identifier that is not in scope throws
\* a ReferenceError, which the catch swallows, and the call is never made.
addAssetRequests(assetData) ==
    IF "newAsset" \in addAssetTryScope
    THEN << [api |-> "addAssetToPortfolio", portfolioId |-> currentPortfolioId,
             ticker |-> assetData.ticker, quantity |-> assetData.quantity,
             averagePrice |-> Or(assetData.averagePrice, assetData.currentPrice)] >>
    ELSE <<>>

\* what a call hands to the API client, in the state it is made in
Requests(op, arg, thrown) ==
    CASE op = "createPortfolio" -> << [api |-> "createPortfolio"] >>
      [] op = "addAsset" /\ thrown # "TypeError" -> addAssetRequests(arg)
      [] op = "searchAssets" -> << [api |-> "searchAssets"] >>
      [] op = "refreshPrices" ->
            [i \in DOMAIN assets |-> PriceRequest(assets[i])]
      [] op = "refreshAssetPrice" ->
            SelectSeq([i \in DOMAIN assets |-> PriceRequest(assets[i])],
                      LAMBDA request : request.id = arg[1])
      [] op = "signInWithEmail" -> << [api |-> "signIn"] >>
      [] op = "signOut" -> << [api |-> "signOut"] >>
      [] OTHER -> <<>>

Called(op, arg, thrown) ==
    /\ nops' = nops + 1
    /\ call' = [op |-> op, arg |-> arg, thrown |-> thrown]
    /\ requested' = Requests(op, arg, thrown)
    /\ UNCHANGED <<refreshes, auth, theme>>

\* state.portfolios.map(p => p.id === state.currentPortfolioId ? {...p, assets} : p)
WithAssets(ps, cur, as) ==
    [i \in DOMAIN ps |-> IF ps[i].id = cur THEN [ps[i] EXCEPT !.assets = as] ELSE ps[i]]

-----------------------------------------------------------------------------
(* Snapshot operations *)

\* the snapshot recordSnapshot builds from the holdings at time t
newSnapshot(as, t) ==
    LET totalValue == SumSeq([i \in DOMAIN as |-> as[i].totalValue], Len(as))
        totalCost  == SumSeq([i \in DOMAIN as |->
                                 Mul(as[i].quantity, Or(as[i].averagePrice, as[i].currentPrice))],
                             Len(as))
        dayChange  == Sub(totalValue, totalCost)
    IN  [id |-> <<"snapshot", t>>,
         totalValue |-> totalValue,
         totalCost |-> totalCost,
         timestamp |-> t,
         timestampType |-> "Date",
         dayChange |-> dayChange,
         dayChangePercent |-> IF Gt(totalCost, Z(0))
                              THEN Mul(Div(dayChange, totalCost), Z(100)) ELSE Z(0)]

\* the new snapshot put in front of the list
updatedSnapshotsNewestFirst(as, snaps, t) ==
    SliceLast(<<newSnapshot(as, t)>> \o snaps, SnapshotLimit)

\* [...snapshots, newSnapshot].slice(-365)
updatedSnapshots(as, snaps, t) ==
    SliceLast(Append(snaps, newSnapshot(as, t)), SnapshotLimit)

\* what a recordSnapshot call leaves in `snapshots`, and what it throws:
\* spreading a value that is not an array throws a TypeError
SnapshotsAfterRecord(as) ==
    IF snapshotsKind = "array" THEN updatedSnapshots(as, snapshots, now) ELSE snapshots

RecordThrown == IF snapshotsKind = "array" THEN "none" ELSE "TypeError"

recordSnapshot ==
    /\ snapshots' = SnapshotsAfterRecord(assets)
    /\ Called("recordSnapshot", <<>>, RecordThrown)
    /\ UNCHANGED <<portfolios, portfoliosKind, currentPortfolioId, assets, snapshotsKind,
                   isLoading, isRefreshing, error, lastRefresh, now, perf>>

-----------------------------------------------------------------------------
(* Portfolio operations *)

\* portfolios.find(p => p.id === id) finds a portfolio
Matches(ps, id) == \E i \in DOMAIN ps : ps[i].id = id

\* the new portfolio put in front of the list
portfoliosWithNewFirst(ps, newPortfolio) == <<newPortfolio>> \o ps

\* [...state.portfolios, newPortfolio]
portfoliosWithNew(ps, newPortfolio) == Append(ps, newPortfolio)

\* remote is the outcome of APIClient.createPortfolio: rejected, or the created portfolio
createPortfolio(remote) ==
    LET newPortfolio ==
            IF remote.ok
            THEN [id |-> remote.id, assets |-> remote.assets]
            ELSE [id |-> <<"portfolio", now>>, assets |-> <<>>]
    IN  /\ Len(portfolios) < MaxPortfolios
        /\ IF portfoliosKind = "array"
           THEN /\ portfolios' = portfoliosWithNew(portfolios, newPortfolio)
                /\ currentPortfolioId' = newPortfolio.id
                /\ assets' = newPortfolio.assets
                /\ Called("createPortfolio", remote, "none")
           ELSE \* the spread throws in the try branch and again in the fallback
                /\ Called("createPortfolio", remote, "TypeError")
                /\ UNCHANGED <<portfolios, currentPortfolioId, assets>>
        /\ UNCHANGED <<portfoliosKind, snapshots, snapshotsKind, isLoading, isRefreshing,
                       error, lastRefresh, now, perf>>

\* the switch with the holdings of the portfolio left behind kept as active
switchPortfolioStaleAssets(portfolioId) ==
    /\ IF portfoliosKind # "array"
       THEN Called("switchPortfolio", portfolioId, "TypeError")
       ELSE Called("switchPortfolio", portfolioId, "none")
    /\ currentPortfolioId' =
           IF portfoliosKind = "array" /\ Matches(portfolios, portfolioId)
           THEN portfolioId ELSE currentPortfolioId
    /\ UNCHANGED <<portfolios, portfoliosKind, assets, snapshots, snapshotsKind, isLoading,
                   isRefreshing, error, lastRefresh, now, perf>>

switchPortfolio(portfolioId) ==
    /\ IF portfoliosKind # "array"
       THEN /\ Called("switchPortfolio", portfolioId, "TypeError")
            /\ UNCHANGED <<currentPortfolioId, assets>>
       ELSE LET k == FindIndex([ix \in DOMAIN portfolios |-> portfolios[ix].id = portfolioId])
            IN  /\ Called("switchPortfolio", portfolioId, "none")
                /\ IF k # 0
                   THEN /\ currentPortfolioId' = portfolioId
                        /\ assets' = portfolios[k].assets
                   ELSE UNCHANGED <<currentPortfolioId, assets>>
    /\ UNCHANGED <<portfolios, portfoliosKind, snapshots, snapshotsKind, isLoading,
                   isRefreshing, error, lastRefresh, now, perf>>

\* the guard with the comparison off by one
IsLastPortfolioStrict(ps) == Len(ps) < 1

\* portfolios.length <= 1
IsLastPortfolio(ps) == Len(ps) <= 1

\* the list with its first portfolio removed, whatever the id
deleteUpdatedPortfoliosFirst(ps, portfolioId) == Tail(ps)

\* portfolios.filter(p => p.id !== portfolioId)
deleteUpdatedPortfolios(ps, portfolioId) == SelectSeq(ps, LAMBDA p : p.id # portfolioId)

deletePortfolio(portfolioId) ==
    LET updatedPortfolios == deleteUpdatedPortfolios(portfolios, portfolioId)
        newCurrentId == IF currentPortfolioId = portfolioId
                        THEN updatedPortfolios[1].id ELSE currentPortfolioId
        k == FindIndex([ix \in DOMAIN updatedPortfolios |-> updatedPortfolios[ix].id = newCurrentId])
    IN  /\ IF portfoliosKind # "array"
           THEN \* length is undefined, undefined <= 1 is false, filter is no function
                /\ Called("deletePortfolio", portfolioId, "TypeError")
                /\ UNCHANGED <<portfolios, currentPortfolioId, assets>>
           ELSE IF IsLastPortfolio(portfolios)
           THEN /\ Called("deletePortfolio", portfolioId, "Cannot delete the last portfolio")
                /\ UNCHANGED <<portfolios, currentPortfolioId, assets>>
           ELSE IF currentPortfolioId = portfolioId /\ updatedPortfolios = <<>>
           THEN \* updatedPortfolios[0] is undefined
                /\ Called("deletePortfolio", portfolioId, "TypeError")
                /\ UNCHANGED <<portfolios, currentPortfolioId, assets>>
           ELSE /\ portfolios' = updatedPortfolios
                /\ currentPortfolioId' = newCurrentId
                /\ assets' = IF k # 0 THEN updatedPortfolios[k].assets ELSE <<>>
                /\ Called("deletePortfolio", portfolioId, "none")
        /\ UNCHANGED <<portfoliosKind, snapshots, snapshotsKind, isLoading, isRefreshing,
                       error, lastRefresh, now, perf>>

-----------------------------------------------------------------------------
(* Asset operations *)

\* updatedAsset with the total still valued at the price held before
updatedAssetStalePrice(existingAsset, assetData) ==
    LET totalQuantity == Add(existingAsset.quantity, assetData.quantity)
    IN  [existingAsset EXCEPT
            !.quantity = totalQuantity,
            !.averagePrice = Div(Add(Mul(existingAsset.quantity,
                                         Or(existingAsset.averagePrice, existingAsset.currentPrice)),
                                     Mul(assetData.quantity,
                                         Or(assetData.averagePrice, assetData.currentPrice))),
                                 totalQuantity),
            !.currentPrice = assetData.currentPrice,
            !.totalValue = Mul(totalQuantity, existingAsset.currentPrice)]

\* the holding addAsset leaves when the ticker is already held
updatedAsset(existingAsset, assetData) ==
    LET existingValue == Mul(existingAsset.quantity,
                             Or(existingAsset.averagePrice, existingAsset.currentPrice))
        newValue == Mul(assetData.quantity, Or(assetData.averagePrice, assetData.currentPrice))
        totalQuantity == Add(existingAsset.quantity, assetData.quantity)
        newAveragePrice == Div(Add(existingValue, newValue), totalQuantity)
    IN  [existingAsset EXCEPT
            !.quantity = totalQuantity,
            !.averagePrice = newAveragePrice,
            !.currentPrice = assetData.currentPrice,
            !.totalValue = Mul(totalQuantity, assetData.currentPrice),
            !.priceChange = IF NotZero(assetData.priceChange)
                            THEN assetData.priceChange ELSE existingAsset.priceChange,
            !.priceChangePercent = IF NotZero(assetData.priceChangePercent)
                                   THEN assetData.priceChangePercent
                                   ELSE existingAsset.priceChangePercent]

\* the holding addAsset creates when the ticker is not held
newAsset(assetData, t) ==
    [id |-> <<"asset", t>>,
     ticker |-> assetData.ticker,
     quantity |-> assetData.quantity,
     currentPrice |-> assetData.currentPrice,
     totalValue |-> Mul(assetData.quantity, assetData.currentPrice),
     priceChange |-> assetData.priceChange,
     priceChangePercent |-> assetData.priceChangePercent,
     averagePrice |-> assetData.averagePrice]

\* a list that gets a new holding for every draft
addAssetUpdatedAssetsAlwaysNew(as, assetData, t) ==
    Append(as, newAsset(assetData, t))

\* the holdings list addAsset sets
addAssetUpdatedAssets(as, assetData, t) ==
    LET existingAssetIndex == FindIndex([ix \in DOMAIN as |-> as[ix].ticker = assetData.ticker])
    IN  IF existingAssetIndex # 0
        THEN [as EXCEPT ![existingAssetIndex] = updatedAsset(as[existingAssetIndex], assetData)]
        ELSE Append(as, newAsset(assetData, t))

\* The remote sync reads `newAsset`, a name that is declared only inside the set
\* callback: the read throws a ReferenceError, which the surrounding catch swallows.
addAsset(assetData) ==
    /\ IF portfoliosKind # "array"
       THEN /\ Called("addAsset", assetData, "TypeError")
            /\ UNCHANGED <<assets, portfolios, snapshots>>
       ELSE LET updatedAssets == addAssetUpdatedAssets(assets, assetData, now)
            IN  /\ assets' = updatedAssets
                /\ portfolios' = WithAssets(portfolios, currentPortfolioId, updatedAssets)
                /\ snapshots' = SnapshotsAfterRecord(updatedAssets)
                /\ Called("addAsset", assetData, RecordThrown)
    /\ UNCHANGED <<portfoliosKind, currentPortfolioId, snapshotsKind, isLoading,
                   isRefreshing, error, lastRefresh, now, perf>>

\* the holdings list updateAsset sets
updateAssetUpdatedAssets(as, h) ==
    [i \in DOMAIN as |->
        IF as[i].id = h.id
        THEN [h EXCEPT !.totalValue = Mul(h.quantity, h.currentPrice)]
        ELSE as[i]]

updateAsset(h) ==
    /\ IF portfoliosKind # "array"
       THEN /\ Called("updateAsset", h, "TypeError")
            /\ UNCHANGED <<assets, portfolios, snapshots>>
       ELSE LET updatedAssets == updateAssetUpdatedAssets(assets, h)
            IN  /\ assets' = updatedAssets
                /\ portfolios' = WithAssets(portfolios, currentPortfolioId, updatedAssets)
                /\ snapshots' = SnapshotsAfterRecord(updatedAssets)
                /\ Called("updateAsset", h, RecordThrown)
    /\ UNCHANGED <<portfoliosKind, currentPortfolioId, snapshotsKind, isLoading,
                   isRefreshing, error, lastRefresh, now, perf>>

removeAsset(assetId) ==
    /\ IF portfoliosKind # "array"
       THEN /\ Called("removeAsset", assetId, "TypeError")
            /\ UNCHANGED <<assets, portfolios, snapshots>>
       ELSE LET updatedAssets == SelectSeq(assets, LAMBDA a : a.id # assetId)
            IN  /\ assets' = updatedAssets
                /\ portfolios' = WithAssets(portfolios, currentPortfolioId, updatedAssets)
                /\ snapshots' = SnapshotsAfterRecord(updatedAssets)
                /\ Called("removeAsset", assetId, RecordThrown)
    /\ UNCHANGED <<portfoliosKind, currentPortfolioId, snapshotsKind, isLoading,
                   isRefreshing, error, lastRefresh, now, perf>>

\* remote is the outcome of APIClient.searchAssets: "rejected" (the mock results
\* are returned) or "found" (the assets of the response are returned); the store
\* is not written
searchAssets(remote) ==
    /\ Called("searchAssets", remote, "none")
    /\ UNCHANGED <<portfolios, portfoliosKind, currentPortfolioId, assets, snapshots,
                   snapshotsKind, isLoading, isRefreshing, error, lastRefresh, now, perf>>

-----------------------------------------------------------------------------
(* Price operations *)

\* the holding a successful price fetch produces
refreshedAsset(asset, currentPrice) ==
    LET priceChange == Sub(currentPrice, asset.currentPrice)
    IN  [asset EXCEPT
            !.currentPrice = currentPrice,
            !.priceChange = priceChange,
            !.priceChangePercent = IF Gt(asset.currentPrice, Z(0))
                                   THEN Mul(Div(priceChange, asset.currentPrice), Z(100))
                                   ELSE Z(0),
            !.totalValue = Mul(asset.quantity, currentPrice)]

\* Promise.all over the holdings: fetched[i] is the price fetched for holding i,
\* Undefined when that fetch was rejected (the holding is then returned as it is)
refreshPricesUpdatedAssets(as, fetched) ==
    [i \in DOMAIN as |->
        IF fetched[i] = Undefined THEN as[i] ELSE refreshedAsset(as[i], fetched[i])]

\* The whole call, run without interleaving.  When `portfolios` is no array the
\* first set throws, the simulated fallback's set throws as well, and the outer
\* catch records the error; a recordSnapshot that throws ends there too.
refreshPrices(fetched) ==
    /\ DOMAIN fetched = DOMAIN assets
    /\ Called("refreshPrices", fetched, "none")
    /\ isRefreshing' = FALSE
    /\ IF portfoliosKind # "array"
       THEN /\ error' = "Failed to refresh prices"
            /\ UNCHANGED <<assets, portfolios, lastRefresh, snapshots>>
       ELSE LET updatedAssets == refreshPricesUpdatedAssets(assets, fetched)
            IN  /\ assets' = updatedAssets
                /\ portfolios' = WithAssets(portfolios, currentPortfolioId, updatedAssets)
                /\ lastRefresh' = now
                /\ snapshots' = SnapshotsAfterRecord(updatedAssets)
                /\ error' = IF RecordThrown = "none" THEN "null" ELSE "Failed to refresh prices"
    /\ UNCHANGED <<portfoliosKind, currentPortfolioId, snapshotsKind, isLoading, now, perf>>

\* fetched is the price fetched for the holding, Undefined when the fetch was
\* rejected; whatever updateAsset throws is caught here
refreshAssetPrice(assetId, fetched) ==
    LET k == FindIndex([ix \in DOMAIN assets |-> assets[ix].id = assetId])
    IN  /\ Called("refreshAssetPrice", <<assetId, fetched>>, "none")
        /\ IF k = 0 \/ fetched = Undefined \/ portfoliosKind # "array"
           THEN UNCHANGED <<assets, portfolios, snapshots>>
           ELSE LET updatedAssets ==
                        updateAssetUpdatedAssets(assets, refreshedAsset(assets[k], fetched))
                IN  /\ assets' = updatedAssets
                    /\ portfolios' = WithAssets(portfolios, currentPortfolioId, updatedAssets)
                    /\ snapshots' = SnapshotsAfterRecord(updatedAssets)
        /\ UNCHANGED <<portfoliosKind, currentPortfolioId, snapshotsKind, isLoading,
                       isRefreshing, error, lastRefresh, now, perf>>

\* refreshPrices as the event loop runs it.  The call sets isRefreshing, reads
\* the holdings and starts one fetch for each (refreshPricesStart); each fetch
\* resolves or is rejected in a turn of its own (refreshPricesFetched); the turn
\* of the last one resolves Promise.all and runs the rest of the call, whose
\* awaits are on promises already resolved (refreshPricesCommit).  Other store
\* calls run between these turns.

\* a fetch that is still awaited
Pending == [n |-> 0, d |-> -2]

AllResolved(fetched) == \A i \in DOMAIN fetched : fetched[i] # Pending

\* the calls in flight once call r has run to its end
RemoveAt(s, r) == [j \in 1..(Len(s) - 1) |-> IF j < r THEN s[j] ELSE s[j + 1]]

\* From the resolution of Promise.all to the end of the call: the set of the
\* batch computed from the holdings read at the start (captured), saveData,
\* recordSnapshot, the outer catch and the finally; err is the error held by
\* the store when Promise.all resolves
refreshPricesCommit(captured, fetched, err) ==
    /\ isRefreshing' = FALSE
    /\ IF portfoliosKind # "array"
       THEN /\ error' = "Failed to refresh prices"
            /\ UNCHANGED <<assets, portfolios, lastRefresh, snapshots>>
       ELSE LET updatedAssets == refreshPricesUpdatedAssets(captured, fetched)
            IN  /\ assets' = updatedAssets
                /\ portfolios' = WithAssets(portfolios, currentPortfolioId, updatedAssets)
                /\ lastRefresh' = now
                /\ snapshots' = SnapshotsAfterRecord(updatedAssets)
                /\ error' = IF RecordThrown = "none" THEN err ELSE "Failed to refresh prices"

\* The synchronous part of the call.  Promise.all of no fetch is resolved at
\* once, and the call then runs to its end in the same turn.  The record of a
\* call in flight holds what the call keeps, the holdings it read and the
\* fetches it awaits, and for the record the portfolio that was active then,
\* which the call does not keep.
refreshPricesStart ==
    /\ nops' = nops + 1
    /\ IF assets = <<>>
       THEN /\ call' = [op |-> "refreshPrices.commit",
                        arg |-> [assets |-> <<>>, fetched |-> <<>>,
                                 portfolioId |-> currentPortfolioId],
                        thrown |-> "none"]
            /\ refreshPricesCommit(<<>>, <<>>, "null")
            /\ UNCHANGED refreshes
            /\ requested' = <<>>
       ELSE /\ call' = [op |-> "refreshPrices.start", arg |-> Len(refreshes) + 1,
                        thrown |-> "none"]
            /\ isRefreshing' = TRUE
            /\ error' = "null"
            /\ refreshes' = Append(refreshes,
                                   [assets |-> assets,
                                    fetched |-> [i \in DOMAIN assets |-> Pending],
                                    portfolioId |-> currentPortfolioId])
            /\ requested' = [i \in DOMAIN assets |-> PriceRequest(assets[i])]
            /\ UNCHANGED <<assets, portfolios, lastRefresh, snapshots>>
    /\ UNCHANGED <<portfoliosKind, currentPortfolioId, snapshotsKind, isLoading, now, perf,
                   auth, theme>>

\* a refresh that writes every price into the store as it arrives
refreshPricesFetchedEager(r, i, result) ==
    /\ r \in DOMAIN refreshes
    /\ i \in DOMAIN refreshes[r].fetched
    /\ refreshes[r].fetched[i] = Pending
    /\ LET captured == refreshes[r].assets
           fetched == [refreshes[r].fetched EXCEPT ![i] = result]
           sofar == [j \in DOMAIN fetched |->
                        IF fetched[j] = Pending THEN Undefined ELSE fetched[j]]
       IN  IF AllResolved(fetched)
           THEN /\ call' = [op |-> "refreshPrices.commit",
                            arg |-> [assets |-> captured, fetched |-> fetched,
                                     portfolioId |-> refreshes[r].portfolioId],
                            thrown |-> "none"]
                /\ refreshPricesCommit(captured, fetched, error)
                /\ refreshes' = RemoveAt(refreshes, r)
           ELSE /\ call' = [op |-> "refreshPrices.fetched", arg |-> <<r, i>>,
                            thrown |-> "none"]
                /\ refreshes' = [refreshes EXCEPT ![r].fetched = fetched]
                /\ assets' = refreshPricesUpdatedAssets(captured, sofar)
                /\ UNCHANGED <<isRefreshing, error, portfolios, lastRefresh, snapshots>>
    /\ requested' = <<>>
    /\ UNCHANGED <<nops, portfoliosKind, currentPortfolioId, snapshotsKind, isLoading,
                   now, perf, auth, theme>>

\* The turn in which the fetch for holding i of call r resolves with a price, or
\* is rejected (result = Undefined).  The holding it yields stays inside the
\* promise; the turn of the last fetch goes on to the end of the call.
refreshPricesFetched(r, i, result) ==
    /\ r \in DOMAIN refreshes
    /\ i \in DOMAIN refreshes[r].fetched
    /\ refreshes[r].fetched[i] = Pending
    /\ LET captured == refreshes[r].assets
           fetched == [refreshes[r].fetched EXCEPT ![i] = result]
       IN  IF AllResolved(fetched)
           THEN /\ call' = [op |-> "refreshPrices.commit",
                            arg |-> [assets |-> captured, fetched |-> fetched,
                                     portfolioId |-> refreshes[r].portfolioId],
                            thrown |-> "none"]
                /\ refreshPricesCommit(captured, fetched, error)
                /\ refreshes' = RemoveAt(refreshes, r)
           ELSE /\ call' = [op |-> "refreshPrices.fetched", arg |-> <<r, i>>,
                            thrown |-> "none"]
                /\ refreshes' = [refreshes EXCEPT ![r].fetched = fetched]
                /\ UNCHANGED <<isRefreshing, error, assets, portfolios, lastRefresh,
                               snapshots>>
    /\ requested' = <<>>
    /\ UNCHANGED <<nops, portfoliosKind, currentPortfolioId, snapshotsKind, isLoading,
                   now, perf, auth, theme>>

-----------------------------------------------------------------------------
(* Performance data *)

Timeframes == {"1D", "1W", "1M", "3M", "6M", "1Y", "ALL"}

timeframeDays(timeframe, snaps) ==
    CASE timeframe = "1D" -> 1
      [] timeframe = "1W" -> 7
      [] timeframe = "1M" -> 30
      [] timeframe = "3M" -> 90
      [] timeframe = "6M" -> 180
      [] timeframe = "1Y" -> 365
      [] timeframe = "ALL" -> Len(snaps)

\* the filter with a strict comparison
filteredSnapshotsStrict(snaps, timeframe, t) ==
    LET cutoffDate == t - timeframeDays(timeframe, snaps) * DayTicks
    IN  SelectSeq(snaps, LAMBDA snapshot : snapshot.timestamp > cutoffDate)

\* snapshots.filter(snapshot => new Date(snapshot.timestamp) >= cutoffDate)
filteredSnapshots(snaps, timeframe, t) ==
    LET cutoffDate == t - timeframeDays(timeframe, snaps) * DayTicks
    IN  SelectSeq(snaps, LAMBDA snapshot : snapshot.timestamp >= cutoffDate)

\* the chart points returned; the label is the timestamp in another format
performanceData(snaps, timeframe, t) ==
    LET f == filteredSnapshots(snaps, timeframe, t)
    IN  [i \in DOMAIN f |-> [timestamp |-> f[i].timestamp, value |-> f[i].totalValue]]

\* snapshot.timestamp.toISOString() is a function on every snapshot kept by the filter
CanFormat(snaps, timeframe, t) ==
    LET f == filteredSnapshots(snaps, timeframe, t)
    IN  \A i \in DOMAIN f : f[i].timestampType = "Date"

getPerformanceData(timeframe) ==
    /\ IF snapshotsKind = "array" /\ CanFormat(snapshots, timeframe, now)
       THEN /\ perf' = performanceData(snapshots, timeframe, now)
            /\ Called("getPerformanceData", timeframe, "none")
       ELSE /\ perf' = perf
            /\ Called("getPerformanceData", timeframe, "TypeError")
    /\ UNCHANGED <<portfolios, portfoliosKind, currentPortfolioId, assets, snapshots,
                   snapshotsKind, isLoading, isRefreshing, error, lastRefresh, now>>

-----------------------------------------------------------------------------
(* Data management *)

\* noise and dailyChange are the random terms of generateSampleSnapshots
loadData(noise, dailyChange) ==
    /\ Called("loadData", <<noise, dailyChange>>, "none")
    /\ assets' = IF Len(assets) = 0 THEN sampleAssets ELSE assets
    /\ snapshots' = IF snapshotsKind = "array" /\ Len(snapshots) = 0
                    THEN generateSampleSnapshots(now, noise, dailyChange)
                    ELSE snapshots
    /\ isLoading' = FALSE
    /\ UNCHANGED <<portfolios, portfoliosKind, currentPortfolioId, snapshotsKind,
                   isRefreshing, error, lastRefresh, now, perf>>

clearData ==
    /\ Called("clearData", <<>>, "none")
    /\ portfolios' = <<DefaultPortfolio>>
    /\ portfoliosKind' = "array"
    /\ currentPortfolioId' = DefaultId
    /\ assets' = <<>>
    /\ snapshots' = <<>>
    /\ snapshotsKind' = "array"
    /\ lastRefresh' = -1
    /\ UNCHANGED <<isLoading, isRefreshing, error, now, perf>>

\* A parsed JSON value is [kind, items]: kind is its JavaScript type ("absent"
\* for a missing field), items the elements of an array.
\* if (value): null, 0, "" and a missing field are falsy
JsTruthy(v) == v.kind \in {"number", "object", "array"}

\* the check with the test of `snapshots` left out
importAcceptsPortfoliosOnly(doc) ==
    /\ doc.json = "object"
    /\ JsTruthy(doc.portfolios)

\* parsedData.portfolios && parsedData.snapshots
importAccepts(doc) ==
    /\ doc.json = "object"
    /\ JsTruthy(doc.portfolios)
    /\ JsTruthy(doc.snapshots)

\* doc is the text handed in: json = "invalid" when JSON.parse throws, "null" when
\* it parses to null (reading a field of null throws), "object" otherwise
importData(doc) ==
    /\ IF importAccepts(doc)
       THEN LET ps == doc.portfolios.items
            IN  /\ portfolios' = ps
                /\ portfoliosKind' = doc.portfolios.kind
                /\ snapshots' = doc.snapshots.items
                /\ snapshotsKind' = doc.snapshots.kind
                /\ currentPortfolioId' = IF Len(ps) > 0 THEN ps[1].id ELSE DefaultId
                /\ assets' = IF Len(ps) > 0 THEN ps[1].assets ELSE <<>>
                /\ Called("importData", doc, "none")
       ELSE /\ Called("importData", doc, "Failed to import data: Invalid format")
            /\ UNCHANGED <<portfolios, portfoliosKind, snapshots, snapshotsKind,
                           currentPortfolioId, assets>>
    /\ UNCHANGED <<isLoading, isRefreshing, error, lastRefresh, now, perf>>

\* the holding mergeDuplicateAssets leaves for two holdings of one ticker
mergedAsset(existingAsset, asset) ==
    LET existingValue == Mul(existingAsset.quantity,
                             Or(existingAsset.averagePrice, existingAsset.currentPrice))
        newValue == Mul(asset.quantity, Or(asset.averagePrice, asset.currentPrice))
        totalQuantity == Add(existingAsset.quantity, asset.quantity)
        newAveragePrice == Div(Add(existingValue, newValue), totalQuantity)
    IN  [existingAsset EXCEPT
            !.quantity = totalQuantity,
            !.averagePrice = newAveragePrice,
            !.currentPrice = asset.currentPrice,
            !.totalValue = Mul(totalQuantity, asset.currentPrice),
            !.priceChange = IF NotZero(asset.priceChange)
                            THEN asset.priceChange ELSE existingAsset.priceChange,
            !.priceChangePercent = IF NotZero(asset.priceChangePercent)
                                   THEN asset.priceChangePercent
                                   ELSE existingAsset.priceChangePercent]

RECURSIVE assetMap(_, _)
\* the values of assetMap, in insertion order, after the first k holdings
assetMap(as, k) ==
    IF k = 0 THEN <<>>
    ELSE LET m == assetMap(as, k - 1)
             j == FindIndex([ix \in DOMAIN m |-> m[ix].ticker = as[k].ticker])
         IN  IF j # 0 THEN [m EXCEPT ![j] = mergedAsset(m[j], as[k])]
                      ELSE Append(m, as[k])

\* Array.from(assetMap.values())
mergedAssets(as) == assetMap(as, Len(as))

mergeDuplicateAssets ==
    /\ IF portfoliosKind # "array"
       THEN /\ Called("mergeDuplicateAssets", <<>>, "TypeError")
            /\ UNCHANGED <<assets, portfolios>>
       ELSE /\ assets' = mergedAssets(assets)
            /\ portfolios' = WithAssets(portfolios, currentPortfolioId, mergedAssets(assets))
            /\ Called("mergeDuplicateAssets", <<>>, "none")
    /\ UNCHANGED <<portfoliosKind, currentPortfolioId, snapshots, snapshotsKind, isLoading,
                   isRefreshing, error, lastRefresh, now, perf>>

-----------------------------------------------------------------------------
(* The authentication store *)

\* What APIClient.signIn does with the answer of the backend: it returns the
\* body of an answer (accepted: success with a user; declined: success false),
\* throws 'Authentication required' from the response interceptor on a 401, and
\* throws the network error when the backend cannot be reached
SignInResponses ==
    { [kind |-> "accepted", thrown |-> "none"],
      [kind |-> "declined", thrown |-> "none"],
      [kind |-> "unauthorized", thrown |-> "Authentication required"],
      [kind |-> "unreachable", thrown |-> "Network Error"] }

\* email && password.length >= 6
localValidation(email, password) == email # "" /\ Len(password) >= 6

\* the user signInWithEmail sets: the one of the response, or the local one
signedInUser(email, response, t) ==
    IF response.thrown = "none"
    THEN [id |-> <<"backend", 1>>, email |-> email, provider |-> "email"]
    ELSE [id |-> <<"email", t>>, email |-> email, provider |-> "email"]

\* whether signInWithEmail signs the user in: the backend accepted, or the
\* call of the backend threw and the local validation passes
signsIn(email, password, response) ==
    IF response.thrown = "none"
    THEN response.kind = "accepted"
    ELSE localValidation(email, password)

signInWithEmail(email, password, response) ==
    /\ nops' = nops + 1
    /\ call' = [op |-> "signInWithEmail",
                arg |-> [email |-> email, password |-> password, response |-> response],
                thrown |-> "none"]
    /\ requested' = Requests("signInWithEmail", <<>>, "none")
    /\ auth' = IF signsIn(email, password, response)
               THEN [user |-> signedInUser(email, response, now),
                     isAuthenticated |-> TRUE, isLoading |-> FALSE, returned |-> "true"]
               ELSE [auth EXCEPT !.isLoading = FALSE, !.returned = "false"]
    /\ UNCHANGED <<portfolioVars, now, theme>>

\* a failure of the backend sign-out is swallowed
signOut ==
    /\ nops' = nops + 1
    /\ call' = [op |-> "signOut", arg |-> <<>>, thrown |-> "none"]
    /\ requested' = Requests("signOut", <<>>, "none")
    /\ auth' = [auth EXCEPT !.user = NoUser, !.isAuthenticated = FALSE, !.returned = "none"]
    /\ UNCHANGED <<portfolioVars, now, theme>>

-----------------------------------------------------------------------------
(* The theme store *)

ThemeTypes == {"system", "light", "dark", "oled_black", "premium_gradient"}

isThemePremium(type) == type \in {"oled_black", "premium_gradient"}

\* generateTheme(config), which reads systemColorScheme and isPremiumUser from
\* the store: they are passed here as the store holds them when it is called
generateTheme(config, systemColorScheme, isPremiumUser) ==
    LET bySystem == IF config.themeType = "system"
                    THEN (IF systemColorScheme = "dark" THEN "dark" ELSE "light")
                    ELSE config.themeType
        effectiveType == IF isThemePremium(bySystem) /\ ~isPremiumUser
                         THEN "dark" ELSE bySystem
    IN  CASE effectiveType = "light" -> Theme("light", config.accentColor)
          [] effectiveType = "dark" -> Theme("dark", config.accentColor)
          [] effectiveType = "oled_black" -> Theme("oled_black", config.accentColor)
          [] effectiveType = "premium_gradient" ->
                Theme("premium_gradient", config.accentColor)
          [] OTHER -> Theme("light", config.accentColor)

\* a call of the theme store counts as a call
ThemeCalled(op, arg) ==
    /\ nops' = nops + 1
    /\ call' = [op |-> op, arg |-> arg, thrown |-> "none"]
    /\ requested' = <<>>
    /\ UNCHANGED <<portfolioVars, now, auth>>

setThemeType(type) ==
    /\ ThemeCalled("setThemeType", type)
    /\ IF isThemePremium(type) /\ ~theme.isPremiumUser
       THEN UNCHANGED theme
       ELSE LET newConfig == [theme.config EXCEPT !.themeType = type]
            IN  theme' = [theme EXCEPT
                            !.config = newConfig,
                            !.currentTheme = generateTheme(newConfig,
                                                           theme.systemColorScheme,
                                                           theme.isPremiumUser)]

setAccentColor(color) ==
    /\ ThemeCalled("setAccentColor", color)
    /\ LET newConfig == [theme.config EXCEPT !.accentColor = color]
       IN  theme' = [theme EXCEPT
                       !.config = newConfig,
                       !.currentTheme = generateTheme(newConfig, theme.systemColorScheme,
                                                      theme.isPremiumUser)]

\* generateTheme runs inside the set callback, on the store as it still is
setPremiumUser(isPremium) ==
    /\ ThemeCalled("setPremiumUser", isPremium)
    /\ LET newConfig == IF ~isPremium /\ isThemePremium(theme.config.themeType)
                        THEN [theme.config EXCEPT !.themeType = "system"]
                        ELSE theme.config
       IN  theme' = [theme EXCEPT
                       !.isPremiumUser = isPremium,
                       !.config = newConfig,
                       !.currentTheme = generateTheme(newConfig, theme.systemColorScheme,
                                                      theme.isPremiumUser)]

\* generateTheme runs inside the set callback, before systemColorScheme is
\* written: get() still returns the scheme held so far
updateSystemColorScheme(scheme) ==
    /\ ThemeCalled("updateSystemColorScheme", scheme)
    /\ theme' = [theme EXCEPT
                    !.systemColorScheme = scheme,
                    !.currentTheme = IF theme.config.themeType = "system"
                                     THEN generateTheme(theme.config,
                                                        theme.systemColorScheme,
                                                        theme.isPremiumUser)
                                     ELSE theme.currentTheme]

resetToDefaults ==
    /\ ThemeCalled("resetToDefaults", <<>>)
    /\ theme' = [theme EXCEPT
                    !.config = defaultConfig,
                    !.currentTheme = generateTheme(defaultConfig, theme.systemColorScheme,
                                                   theme.isPremiumUser)]

-----------------------------------------------------------------------------
(* The clock *)

\* time passes by dt ticks between two calls
Tick(dt) ==
    /\ now' = now + dt
    /\ call' = [op |-> "tick", arg |-> dt, thrown |-> "none"]
    /\ UNCHANGED <<portfolios, portfoliosKind, currentPortfolioId, assets, snapshots,
                   snapshotsKind, isLoading, isRefreshing, error, lastRefresh, nops, perf,
                   refreshes, requested, auth, theme>>

-----------------------------------------------------------------------------
(* Inputs *)

\* an asset draft as the add-asset screen and other callers build it
Draft(ticker, quantity, currentPrice, averagePrice, change) ==
    [ticker |-> ticker, quantity |-> quantity, currentPrice |-> currentPrice,
     priceChange |-> change, priceChangePercent |-> change, averagePrice |-> averagePrice]

Drafts ==
    { Draft("AAPL", Z(1), Z(2), Undefined, Z(0)), Draft("TSLA", Z(2), Z(3), Z(1), Z(1)) }

\* outcomes of APIClient.createPortfolio: rejected, or the portfolio of the
\* response, without holdings or with one
RemoteCreations ==
    { [ok |-> FALSE, id |-> <<"", 0>>, assets |-> <<>>],
      [ok |-> TRUE, id |-> <<"remote", 1>>, assets |-> <<>>],
      [ok |-> TRUE, id |-> <<"remote", 2>>,
       assets |-> << [id |-> <<"remote-held", 1>>, ticker |-> "ETH", quantity |-> Z(1),
                      currentPrice |-> Z(2), totalValue |-> Z(2), priceChange |-> Z(0),
                      priceChangePercent |-> Z(0), averagePrice |-> Z(2)] >>] }

UnknownId == <<"unknown", 0>>

PortfolioIds == {portfolios[i].id : i \in DOMAIN portfolios} \cup {UnknownId}

AssetIds == {assets[i].id : i \in DOMAIN assets} \cup {UnknownId}

\* edited holdings handed to updateAsset: a held holding with a new quantity and
\* price (its totalValue still the old one), or a holding that is not held
Edits ==
    { [assets[i] EXCEPT !.quantity = Z(3), !.currentPrice = Z(5)] : i \in DOMAIN assets }
    \cup { [id |-> UnknownId, ticker |-> "AAPL", quantity |-> Z(1), currentPrice |-> Z(1),
            totalValue |-> Z(1), priceChange |-> Z(0), priceChangePercent |-> Z(0),
            averagePrice |-> Undefined] }

\* results of APIClient.getAssetPrice: rejected, or a price
FetchResults == {Undefined, Z(4)}

\* the outcomes of the price fetches of one refreshPrices call: all fetched, all
\* rejected, or all but the first fetched
FetchOutcomes ==
    { [i \in DOMAIN assets |-> Z(4)],
      [i \in DOMAIN assets |-> Undefined],
      [i \in DOMAIN assets |-> IF i = 1 THEN Undefined ELSE Z(4)] }

\* holdings and portfolios found in imported files
ImportedHolding(n, ticker, quantity, currentPrice, totalValue, averagePrice) ==
    [id |-> <<"held", n>>, ticker |-> ticker, quantity |-> quantity,
     currentPrice |-> currentPrice, totalValue |-> totalValue,
     priceChange |-> Z(0), priceChangePercent |-> Z(0), averagePrice |-> averagePrice]

ImportedPortfolio(n, as) == [id |-> <<"imported", n>>, assets |-> as]

\* JSON.parse leaves the timestamp of a snapshot a string
ImportedSnapshot(n) ==
    [id |-> <<"snapshot", StartTime - n>>, totalValue |-> Z(6), totalCost |-> Z(4),
     timestamp |-> StartTime - n, timestampType |-> "string",
     dayChange |-> Z(2), dayChangePercent |-> Z(50)]

Absent == [kind |-> "absent", items |-> <<>>]
Zero == [kind |-> "zero", items |-> <<>>]
Number == [kind |-> "number", items |-> <<>>]
Object == [kind |-> "object", items |-> <<>>]
Array(items) == [kind |-> "array", items |-> items]

Doc(json, ps, ss) == [json |-> json, portfolios |-> ps, snapshots |-> ss]

\* a portfolio list as exportData writes it, one whose holding carries a
\* totalValue that is not quantity * currentPrice, and an empty one
ImportedPortfolioLists ==
    { <<>>,
      <<ImportedPortfolio(1, <<ImportedHolding(1, "AAPL", Z(2), Z(3), Z(6), Z(1))>>)>>,
      <<ImportedPortfolio(1, <<ImportedHolding(1, "AAPL", Z(2), Z(3), Z(7), Z(1))>>)>> }

ImportDocs ==
    { Doc("invalid", Absent, Absent), Doc("null", Absent, Absent) }
    \cup { Doc("object", Array(ps), Array(<<ImportedSnapshot(1)>>)) : ps \in ImportedPortfolioLists }
    \cup { Doc("object", Array(<<>>), ss) : ss \in {Absent, Number} }
    \cup { Doc("object", ps, Array(<<>>)) : ps \in {Zero, Number, Object} }

SampleNoise == Num(1, 100)
SampleDailyChange == Num(1, 100)

-----------------------------------------------------------------------------
(* The store under any sequence of calls *)

\* calls are still to be made in this behaviour
More == nops < MaxOps

Next ==
    \/ More /\ loadData(SampleNoise, SampleDailyChange)
    \/ \E remote \in RemoteCreations : More /\ createPortfolio(remote)
    \/ \E id \in PortfolioIds : More /\ switchPortfolio(id)
    \/ \E id \in PortfolioIds : More /\ deletePortfolio(id)
    \/ \E assetData \in Drafts : More /\ addAsset(assetData)
    \/ \E h \in Edits : More /\ updateAsset(h)
    \/ \E id \in AssetIds : More /\ removeAsset(id)
    \/ \E fetched \in FetchOutcomes : More /\ refreshPrices(fetched)
    \/ \E id \in AssetIds, fetched \in FetchResults : More /\ refreshAssetPrice(id, fetched)
    \/ More /\ recordSnapshot
    \/ More /\ mergeDuplicateAssets
    \/ More /\ clearData
    \/ \E doc \in ImportDocs : More /\ importData(doc)
    \/ More /\ now < StartTime + MaxClock /\ Tick(1)

Spec == Init /\ [][Next]_vars

-----------------------------------------------------------------------------
(* addAsset alone, on drafts that cover a missing, a zero and a positive
   average price on either side, and the AAPL scenario of the specification *)

AddDrafts ==
    { Draft(tk, Z(1), Z(2), avg, Z(0)) : tk \in {"AAPL", "BTC"}, avg \in {Undefined, Z(0), Z(1)} }
    \cup { Draft(tk, Z(2), Z(3), avg, Z(1)) : tk \in {"AAPL", "BTC"}, avg \in {Undefined, Z(0), Z(1)} }
    \cup { Draft("AAPL", Z(10), Num(381, 2), Z(185), Z(0)),
           Draft("AAPL", Z(5), Z(195), Z(200), Z(0)) }

NextAdd ==
    \/ \E assetData \in AddDrafts : More /\ addAsset(assetData)
    \/ More /\ now < StartTime + MaxClock /\ Tick(1)

SpecAdd == Init /\ [][NextAdd]_vars

-----------------------------------------------------------------------------
(* mergeDuplicateAssets on imported holdings lists: up to MaxHeld holdings drawn
   from a pool with two tickers, with and without an average price, and the
   BTC/BTC/ETH scenario of the specification *)

MaxHeld == 3

HoldingPool(n) ==
    { ImportedHolding(n, "BTC", Z(1), Z(45000), Z(45000), Z(40000)),
      ImportedHolding(n, "BTC", Z(1), Z(45000), Z(45000), Z(42000)),
      ImportedHolding(n, "BTC", Z(2), Z(3), Z(6), Undefined),
      ImportedHolding(n, "BTC", Z(1), Z(5), Z(5), Z(0)),
      ImportedHolding(n, "ETH", Z(2), Z(3200), Z(6400), Undefined),
      ImportedHolding(n, "ETH", Z(1), Z(3000), Z(3000), Z(2800)) }

\* the holdings lists of length n whose i-th holding comes from HoldingPool(i)
HoldingLists(n) ==
    { as \in [1..n -> UNION {HoldingPool(i) : i \in 1..n}] :
        \A i \in 1..n : as[i] \in HoldingPool(i) }

MergeDocs ==
    { Doc("object", Array(<<ImportedPortfolio(1, as)>>), Array(<<>>)) :
        as \in UNION {HoldingLists(n) : n \in 1..MaxHeld} }

NextMerge ==
    \/ \E doc \in MergeDocs : More /\ call.op = "init" /\ importData(doc)
    \/ More /\ mergeDuplicateAssets
    \/ More /\ now < StartTime + MaxClock /\ Tick(1)

SpecMerge == Init /\ [][NextMerge]_vars

-----------------------------------------------------------------------------
(* getPerformanceData on daily histories: the seeded sample history, or one
   snapshot recorded per day for up to MaxDaily days; the chart is read right
   after the newest snapshot was taken, or a moment (less than a day) later *)

MaxDaily == 20

\* the last step let a whole day pass
DayPassed == call.op = "tick" /\ call.arg = DayTicks

\* the last step let a moment pass
MomentPassed == call.op = "tick" /\ call.arg < DayTicks

NextPerf ==
    \/ call.op = "init" /\ loadData(SampleNoise, SampleDailyChange)
    \/ (call.op = "init" \/ DayPassed) /\ recordSnapshot
    \/ call.op = "recordSnapshot" /\ Len(snapshots) < MaxDaily /\ Tick(DayTicks)
    \/ call.op \in {"recordSnapshot", "loadData"} /\ Tick(1)
    \/ \E timeframe \in Timeframes :
          /\ call.op \in {"recordSnapshot", "loadData"} \/ MomentPassed
          /\ getPerformanceData(timeframe)

SpecPerf == Init /\ [][NextPerf]_vars

-----------------------------------------------------------------------------
(* recordSnapshot and getPerformanceData with any time between the calls, up
   to MaxIdle ticks in all *)

MaxIdle == 6

NextHistory ==
    \/ More /\ recordSnapshot
    \/ \E dt \in 1..DayTicks : now + dt <= StartTime + MaxIdle /\ Tick(dt)
    \/ \E timeframe \in Timeframes : More /\ getPerformanceData(timeframe)

SpecHistory == Init /\ [][NextHistory]_vars

-----------------------------------------------------------------------------
(* The store with the backend unreachable: every remote call is rejected *)

Rejected == [ok |-> FALSE, id |-> <<"", 0>>, assets |-> <<>>]

NextOffline ==
    \/ \E doc \in ImportDocs : More /\ importData(doc)
    \/ More /\ loadData(SampleNoise, SampleDailyChange)
    \/ More /\ createPortfolio(Rejected)
    \/ \E assetData \in Drafts : More /\ addAsset(assetData)
    \/ More /\ searchAssets("rejected")
    \/ More /\ refreshPrices([i \in DOMAIN assets |-> Undefined])
    \/ \E id \in AssetIds : More /\ refreshAssetPrice(id, Undefined)

SpecOffline == Init /\ [][NextOffline]_vars

-----------------------------------------------------------------------------
(* The store while price refreshes are in flight: up to MaxInFlight calls of
   refreshPrices await their fetches, the fetches resolve or are rejected in
   any order, and holdings are added, removed, merged and switched and
   portfolios created (locally, the backend being out of reach for that)
   between the turns, in up to MaxRefreshOps calls *)

MaxRefreshOps == 4

MoreRefresh == nops < MaxRefreshOps

NextRefresh ==
    \/ \E assetData \in Drafts : MoreRefresh /\ addAsset(assetData)
    \/ \E id \in AssetIds : MoreRefresh /\ removeAsset(id)
    \/ \E id \in PortfolioIds : MoreRefresh /\ switchPortfolio(id)
    \/ MoreRefresh /\ createPortfolio(Rejected)
    \/ MoreRefresh /\ mergeDuplicateAssets
    \/ MoreRefresh /\ Len(refreshes) < MaxInFlight /\ refreshPricesStart
    \/ \E r \in DOMAIN refreshes :
          \E i \in DOMAIN refreshes[r].fetched, result \in FetchResults :
              refreshPricesFetched(r, i, result)

SpecRefresh == Init /\ [][NextRefresh]_vars

-----------------------------------------------------------------------------
(* Holdings and portfolios made and removed locally, the backend out of reach,
   with the clock free to move or not between two calls *)

NextIds ==
    \/ \E assetData \in Drafts : More /\ addAsset(assetData)
    \/ More /\ createPortfolio(Rejected)
    \/ \E id \in AssetIds : More /\ removeAsset(id)
    \/ \E id \in PortfolioIds : More /\ deletePortfolio(id)
    \/ More /\ now < StartTime + MaxClock /\ Tick(1)

SpecIds == Init /\ [][NextIds]_vars

-----------------------------------------------------------------------------
(* Signing in with an email and signing out, whatever the backend answers *)

Emails == {"", "ada@example.com"}

\* one password shorter than six characters and one of six
Passwords == {"12345", "123456"}

NextAuth ==
    \/ \E email \in Emails, password \in Passwords, response \in SignInResponses :
          More /\ signInWithEmail(email, password, response)
    \/ More /\ signOut
    \/ More /\ now < StartTime + MaxClock /\ Tick(1)

SpecAuth == Init /\ [][NextAuth]_vars

-----------------------------------------------------------------------------
(* The theme store under any sequence of its calls *)

AccentColors == {"Blue", "Purple"}

\* ColorSchemeName
ColorSchemes == {"light", "dark", "null"}

NextTheme ==
    \/ \E type \in ThemeTypes : More /\ setThemeType(type)
    \/ \E color \in AccentColors : More /\ setAccentColor(color)
    \/ \E isPremium \in BOOLEAN : More /\ setPremiumUser(isPremium)
    \/ \E scheme \in ColorSchemes : More /\ updateSystemColorScheme(scheme)
    \/ More /\ resetToDefaults

SpecTheme == Init /\ [][NextTheme]_vars

-----------------------------------------------------------------------------
(* Claims *)

\* C1: in every reachable state every holding of the active holdings list has
\* totalValue = quantity * currentPrice.
C1_TotalValueIsQuantityTimesPrice ==
    \A i \in DOMAIN assets :
        assets[i].totalValue = Mul(assets[i].quantity, assets[i].currentPrice)

\* the price the claim weighs a side with: its averagePrice whenever one is
\* present (a present 0 included), its currentPrice only when none is
PresentAverageOrCurrent(h) ==
    IF h.averagePrice # Undefined THEN h.averagePrice ELSE h.currentPrice

\* the index of the holding of a ticker in a holdings list, 0 when not held
Held(as, ticker) == FindIndex([ix \in DOMAIN as |-> as[ix].ticker = ticker])

\* (q1*p1 + q2*p2) / (q1 + q2)
WeightedAverage(q1, p1, q2, p2) == Div(Add(Mul(q1, p1), Mul(q2, p2)), Add(q1, q2))

\* C2: addAsset of a ticker already held leaves quantity q1+q2 and averagePrice
\* (q1*p1 + q2*p2)/(q1+q2), p being each side's averagePrice whenever present
\* (a present 0 included) and its currentPrice only when averagePrice is absent.
C2_MergeUsesPresentAverage ==
    [][ (call'.op = "addAsset" /\ Held(assets, call'.arg.ticker) # 0) =>
          LET d == call'.arg
              k == Held(assets, d.ticker)
              e == assets[k]
          IN  /\ assets'[k].quantity = Add(e.quantity, d.quantity)
              /\ assets'[k].averagePrice =
                     WeightedAverage(e.quantity, PresentAverageOrCurrent(e),
                                     d.quantity, PresentAverageOrCurrent(d)) ]_vars

\* C3: addAsset of a ticker not held appends one holding with totalValue =
\* quantity * currentPrice; addAsset of a ticker already held keeps the holding's
\* id and position, takes the incoming currentPrice and sets totalValue to
\* (q1+q2) * incoming currentPrice; AAPL 10@185 (current 190.50) followed by
\* AAPL 5@200 (current 195) gives quantity 15, average 190, current 195, total 2925.
C3_AddAppendsOrMergesInPlace ==
    [][ call'.op = "addAsset" =>
          LET d == call'.arg
              k == Held(assets, d.ticker)
              n == Len(assets)
          IN  IF k = 0
              THEN /\ Len(assets') = n + 1
                   /\ SubSeq(assets', 1, n) = assets
                   /\ assets'[n + 1].ticker = d.ticker
                   /\ assets'[n + 1].quantity = d.quantity
                   /\ assets'[n + 1].currentPrice = d.currentPrice
                   /\ assets'[n + 1].totalValue = Mul(d.quantity, d.currentPrice)
                   /\ (d = Draft("AAPL", Z(10), Num(381, 2), Z(185), Z(0))
                         => assets'[n + 1].totalValue = Z(1905))
              ELSE /\ Len(assets') = n
                   /\ \A j \in 1..n : j # k => assets'[j] = assets[j]
                   /\ assets'[k].id = assets[k].id
                   /\ assets'[k].ticker = assets[k].ticker
                   /\ assets'[k].currentPrice = d.currentPrice
                   /\ assets'[k].quantity = Add(assets[k].quantity, d.quantity)
                   /\ assets'[k].totalValue =
                          Mul(Add(assets[k].quantity, d.quantity), d.currentPrice)
                   /\ ( /\ assets[k].quantity = Z(10)
                        /\ assets[k].averagePrice = Z(185)
                        /\ d = Draft("AAPL", Z(5), Z(195), Z(200), Z(0))
                        => /\ assets'[k].quantity = Z(15)
                           /\ assets'[k].averagePrice = Z(190)
                           /\ assets'[k].currentPrice = Z(195)
                           /\ assets'[k].totalValue = Z(2925) ) ]_vars

\* C3 witness: the AAPL scenario has run, and the merged holding is not the last
\* one of the list
C3_Witness ==
    /\ call.op = "addAsset"
    /\ call.arg = Draft("AAPL", Z(5), Z(195), Z(200), Z(0))
    /\ Len(assets) = 2
    /\ assets[1].ticker = "AAPL"
    /\ assets[1].quantity = Z(15)
    /\ assets[1].averagePrice = Z(190)
    /\ assets[1].totalValue = Z(2925)

\* C4: in every reachable state the snapshot list holds at most 365 entries.
C4_AtMost365Snapshots ==
    snapshotsKind = "array" => Len(snapshots) <= SnapshotLimit

\* C5: two recordSnapshot calls in succession, with unchanged holdings and no
\* clock tick between them, append two snapshots with equal totalValue and
\* totalCost but distinct ids and distinct timestamps.
C5_SuccessiveSnapshotsDistinct ==
    [][ ( /\ call.op = "recordSnapshot" /\ call.thrown = "none"
          /\ call'.op = "recordSnapshot" /\ call'.thrown = "none" ) =>
          LET n == Len(snapshots')
          IN  /\ n >= 2
              /\ snapshots'[n - 1].totalValue = snapshots'[n].totalValue
              /\ snapshots'[n - 1].totalCost = snapshots'[n].totalCost
              /\ snapshots'[n - 1].id # snapshots'[n].id
              /\ snapshots'[n - 1].timestamp # snapshots'[n].timestamp ]_vars

CannotDeleteLast == "Cannot delete the last portfolio"

\* C6: deletePortfolio on a store that holds exactly one portfolio raises
\* 'Cannot delete the last portfolio' and leaves portfolios, currentPortfolioId,
\* assets and snapshots unchanged, whatever id is passed.
C6_LastPortfolioIsKept ==
    [][ (call'.op = "deletePortfolio" /\ portfoliosKind = "array" /\ Len(portfolios) = 1) =>
          /\ call'.thrown = CannotDeleteLast
          /\ UNCHANGED <<portfolios, currentPortfolioId, assets, snapshots>> ]_vars

\* C6 witness: the only portfolio, holding assets, was asked to be deleted by its
\* own id and the call was refused
C6_Witness ==
    /\ call.op = "deletePortfolio"
    /\ call.thrown = CannotDeleteLast
    /\ portfoliosKind = "array"
    /\ Len(portfolios) = 1
    /\ call.arg = portfolios[1].id
    /\ call.arg = currentPortfolioId
    /\ assets # <<>>

InvalidFormat == "Failed to import data: Invalid format"

C8_NonArrayImportRejected ==
    [][ ( /\ call'.op = "importData"
          /\ call'.arg.json = "object"
          /\ \/ call'.arg.portfolios.kind # "array"
             \/ call'.arg.snapshots.kind # "array" ) =>
          /\ call'.thrown = InvalidFormat
          /\ UNCHANGED <<portfolios, portfoliosKind, snapshots, snapshotsKind,
                         currentPortfolioId, assets>> ]_vars

\* the indices of the holdings of a list that are the first of their ticker
FirstOfTicker(as) ==
    SelectSeq([i \in DOMAIN as |-> i],
              LAMBDA i : \A j \in 1..(i - 1) : as[j].ticker # as[i].ticker)

\* the number of holdings of a list with the ticker of holding i
CountOfTicker(as, i) == Cardinality({j \in DOMAIN as : as[j].ticker = as[i].ticker})

\* the sum of quantity over the holdings with the ticker of holding i
QuantityOfTicker(as, i) ==
    SumSeq([j \in DOMAIN as |-> IF as[j].ticker = as[i].ticker THEN as[j].quantity ELSE Z(0)],
           Len(as))

\* the sum of quantity * average-or-current price over the holdings with the ticker of holding i
CostOfTicker(as, i) ==
    SumSeq([j \in DOMAIN as |-> IF as[j].ticker = as[i].ticker
                                 THEN Mul(as[j].quantity, PresentAverageOrCurrent(as[j])) ELSE Z(0)],
           Len(as))

\* C9: after mergeDuplicateAssets the holdings are one per ticker in order of
\* first occurrence; a merged holding keeps the id of the first holding of its
\* ticker, has the summed quantity and the quantity-weighted average of the
\* merged holdings' average-or-current prices; a holding whose ticker occurred
\* once is unchanged.
C9_MergeOnePerTicker ==
    [][ (call'.op = "mergeDuplicateAssets" /\ call'.thrown = "none") =>
          LET first == FirstOfTicker(assets)
          IN  /\ Len(assets') = Len(first)
              /\ \A m \in DOMAIN first :
                    LET i == first[m]
                    IN  IF CountOfTicker(assets, i) = 1
                        THEN assets'[m] = assets[i]
                        ELSE /\ assets'[m].ticker = assets[i].ticker
                             /\ assets'[m].id = assets[i].id
                             /\ assets'[m].quantity = QuantityOfTicker(assets, i)
                             /\ assets'[m].averagePrice =
                                    Div(CostOfTicker(assets, i),
                                        QuantityOfTicker(assets, i)) ]_vars

\* the days the claim gives for a timeframe
ClaimedDays(timeframe) ==
    CASE timeframe = "1D" -> 1
      [] timeframe = "1W" -> 7
      [] timeframe = "1M" -> 30
      [] timeframe = "3M" -> 90
      [] timeframe = "6M" -> 180
      [] timeframe = "1Y" -> 365

\* the chart points of the m most recent snapshots, in stored order
PointsOfLast(m) ==
    LET n == Len(snapshots)
    IN  [i \in 1..m |-> [timestamp |-> snapshots[n - m + i].timestamp,
                          value |-> snapshots[n - m + i].totalValue]]

\* the snapshots are spaced exactly one day apart and the newest is `age` ticks old
DailyHistory(age) ==
    /\ snapshotsKind = "array"
    /\ \A i \in DOMAIN snapshots :
          snapshots[i].timestamp = now - age - (Len(snapshots) - i) * DayTicks

Min(a, b) == IF a < b THEN a ELSE b

PointOf(snapshot) == [timestamp |-> snapshot.timestamp, value |-> snapshot.totalValue]

\* C11: getPerformanceData('ALL') returns one point for every stored snapshot,
\* in stored order, whatever the timestamps of the snapshots are.
C11_AllReturnsEverySnapshot ==
    (call.op = "getPerformanceData" /\ call.arg = "ALL" /\ snapshotsKind = "array") =>
        /\ call.thrown = "none"
        /\ perf = [i \in DOMAIN snapshots |-> PointOf(snapshots[i])]

\* every fetch of the refreshPrices call was rejected
AllRejected(fetched) == \A i \in DOMAIN fetched : fetched[i] = Undefined

\* holding `new` is holding `old` after a simulated price walk: its price moved
\* by at most 5 percent, and priceChange, priceChangePercent and totalValue
\* are those of the move
Walked(old, new) ==
    LET change == Sub(new.currentPrice, old.currentPrice)
        limit  == Mul(old.currentPrice, Num(1, 20))
    IN  /\ Geq(limit, change)
        /\ Geq(change, Sub(Z(0), limit))
        /\ new.priceChange = change
        /\ Mul(old.currentPrice, new.priceChangePercent) = Mul(change, Z(100))
        /\ Geq(Z(5), new.priceChangePercent)
        /\ Geq(new.priceChangePercent, Z(-5))
        /\ new.totalValue = Mul(old.quantity, new.currentPrice)

\* C12: when every price fetch of a refreshPrices call is rejected, every
\* holding is committed with a simulated price within 5 percent of its previous
\* price, and priceChange, priceChangePercent and totalValue recomputed from it.
C12_AllRejectedSimulates ==
    [][ ( /\ call'.op = "refreshPrices"
          /\ AllRejected(call'.arg)
          /\ portfoliosKind = "array" ) =>
            /\ Len(assets') = Len(assets)
            /\ \A i \in DOMAIN assets : Walked(assets[i], assets'[i]) ]_vars

\* some fetches of the refreshPrices call were rejected, and some were not
SomeRejected(fetched) ==
    /\ \E i \in DOMAIN fetched : fetched[i] = Undefined
    /\ \E i \in DOMAIN fetched : fetched[i] # Undefined

\* C13: in a refreshPrices call where some but not all fetches are rejected, a
\* holding whose fetch was rejected is committed unchanged, a holding whose
\* fetch gave price p is committed with currentPrice = p, priceChange = p - old
\* price and totalValue = quantity * p, and the call does not raise.
C13_PartialFailureCommitsTheRest ==
    [][ (call'.op = "refreshPrices" /\ SomeRejected(call'.arg)) =>
            /\ call'.thrown = "none"
            /\ Len(assets') = Len(assets)
            /\ \A i \in DOMAIN assets :
                  IF call'.arg[i] = Undefined
                  THEN assets'[i] = assets[i]
                  ELSE /\ assets'[i].currentPrice = call'.arg[i]
                       /\ assets'[i].priceChange = Sub(call'.arg[i], assets[i].currentPrice)
                       /\ assets'[i].totalValue = Mul(assets[i].quantity, call'.arg[i])
                       /\ assets'[i].id = assets[i].id
                       /\ assets'[i].ticker = assets[i].ticker
                       /\ assets'[i].quantity = assets[i].quantity ]_vars

\* C14: after a createPortfolio that completes, with the remote creation
\* accepted or rejected, the portfolio list is the previous list with one new
\* portfolio appended last, currentPortfolioId is the id of that portfolio, and
\* the active holdings list is empty.
C14_CreateAppendsAndActivatesEmpty ==
    [][ (call'.op = "createPortfolio" /\ call'.thrown = "none") =>
          LET n == Len(portfolios)
          IN  /\ Len(portfolios') = n + 1
              /\ SubSeq(portfolios', 1, n) = portfolios
              /\ currentPortfolioId' = portfolios'[n + 1].id
              /\ assets' = <<>> ]_vars

\* C14 as amended: after a createPortfolio that completes, the portfolio list
\* is the previous list with one new portfolio appended last, currentPortfolioId
\* is the id of that portfolio, and the active holdings list is the holdings of
\* that portfolio: empty when the remote creation was rejected or its response
\* carries no holdings, the holdings of the response otherwise.
C14_CreateAppendsAndActivates ==
    [][ (call'.op = "createPortfolio" /\ call'.thrown = "none") =>
          LET n == Len(portfolios)
          IN  /\ Len(portfolios') = n + 1
              /\ SubSeq(portfolios', 1, n) = portfolios
              /\ currentPortfolioId' = portfolios'[n + 1].id
              /\ assets' = portfolios'[n + 1].assets
              /\ assets' = IF call'.arg.ok THEN call'.arg.assets ELSE <<>> ]_vars

\* C14 witness: a portfolio that the remote returned with a holding was created
\* next to the default one, and its holding is the active holdings list
C14_Witness ==
    /\ call.op = "createPortfolio"
    /\ call.thrown = "none"
    /\ call.arg.ok
    /\ Len(portfolios) = 2
    /\ currentPortfolioId = portfolios[2].id
    /\ Len(assets) = 1

\* the indices of the portfolios whose id is not `id`, in increasing order
KeptIndices(ps, id) == SelectSeq([i \in DOMAIN ps |-> i], LAMBDA i : ps[i].id # id)

\* C15: a deletePortfolio(id) that succeeds removes the portfolios with that id
\* and keeps all others in their order; when the removed portfolio was the
\* active one, currentPortfolioId becomes the id of the first remaining
\* portfolio and the active holdings become the holdings of that portfolio;
\* otherwise currentPortfolioId is unchanged.
C15_DeleteRemovesAndReactivates ==
    [][ (call'.op = "deletePortfolio" /\ call'.thrown = "none") =>
          LET kept == KeptIndices(portfolios, call'.arg)
          IN  /\ Len(portfolios) >= 2
              /\ Len(portfolios') = Len(kept)
              /\ \A m \in DOMAIN kept : portfolios'[m] = portfolios[kept[m]]
              /\ IF currentPortfolioId = call'.arg
                 THEN /\ currentPortfolioId' = portfolios'[1].id
                      /\ assets' = portfolios'[1].assets
                 ELSE currentPortfolioId' = currentPortfolioId ]_vars

\* C15 witness: the active portfolio was deleted, and the default portfolio,
\* first of those that remain, is active again with the holding it has
C15_Witness ==
    /\ call.op = "deletePortfolio"
    /\ call.thrown = "none"
    /\ call.arg # UnknownId
    /\ \A i \in DOMAIN portfolios : portfolios[i].id # call.arg
    /\ currentPortfolioId = DefaultId
    /\ portfolios[1].id = DefaultId
    /\ assets # <<>>
    /\ assets = portfolios[1].assets

\* C16: switchPortfolio(id) with an id that matches no portfolio changes nothing
\* of the store; with a matching id it changes only currentPortfolioId and the
\* active holdings list, which becomes the stored holdings of that portfolio,
\* and leaves portfolios and snapshots unchanged.
C16_SwitchChangesOnlyTheActivePortfolio ==
    [][ call'.op = "switchPortfolio" =>
          /\ UNCHANGED <<portfolios, portfoliosKind, snapshots, snapshotsKind, isLoading,
                         isRefreshing, error, lastRefresh>>
          /\ IF portfoliosKind = "array" /\ Matches(portfolios, call'.arg)
             THEN /\ currentPortfolioId' = call'.arg
                  /\ \E i \in DOMAIN portfolios :
                        /\ portfolios[i].id = call'.arg
                        /\ \A j \in 1..(i - 1) : portfolios[j].id # call'.arg
                        /\ assets' = portfolios[i].assets
             ELSE UNCHANGED <<currentPortfolioId, assets>> ]_vars

\* C16 witness: the store holds a holding in its default portfolio, another
\* portfolio is active, and a switch back to the default one showed the holding
C16_Witness ==
    /\ call.op = "switchPortfolio"
    /\ call.thrown = "none"
    /\ call.arg = DefaultId
    /\ currentPortfolioId = DefaultId
    /\ Len(portfolios) >= 2
    /\ assets # <<>>

\* the operations that call the backend
RemoteOps == {"createPortfolio", "addAsset", "searchAssets", "refreshPrices", "refreshAssetPrice"}

\* C17: with every remote call rejected, createPortfolio, addAsset, searchAssets,
\* refreshPrices and refreshAssetPrice raise nothing to the caller, createPortfolio
\* still appends and activates its portfolio, and addAsset still leaves the
\* added ticker in the active holdings.
C17_OfflineCallsRaiseNothing ==
    [][ call'.op \in RemoteOps =>
          /\ call'.thrown = "none"
          /\ call'.op = "createPortfolio" =>
                /\ Len(portfolios') = Len(portfolios) + 1
                /\ currentPortfolioId' = portfolios'[Len(portfolios')].id
          /\ call'.op = "addAsset" =>
                /\ Held(assets', call'.arg.ticker) # 0
                /\ assets' # assets ]_vars

\* the operations that change the holdings
HoldingOps == {"addAsset", "updateAsset", "removeAsset", "refreshPrices", "mergeDuplicateAssets"}

\* `after` is `before` with one snapshot, valued from the holdings `as`, appended
\* (the oldest entries dropped beyond SnapshotLimit)
AppendsSnapshotOf(before, after, as) ==
    /\ after # <<>>
    /\ after = SliceLast(Append(before, after[Len(after)]), SnapshotLimit)
    /\ after[Len(after)].totalValue = SumSeq([i \in DOMAIN as |-> as[i].totalValue], Len(as))

\* C18: every addAsset, updateAsset, removeAsset, refreshPrices and
\* mergeDuplicateAssets that completes appends one snapshot, computed from the
\* holdings as they are after the operation.
C18_HoldingOpsAppendSnapshot ==
    [][ (call'.op \in HoldingOps /\ call'.thrown = "none") =>
          /\ snapshotsKind' = "array"
          /\ AppendsSnapshotOf(snapshots, snapshots', assets') ]_vars

\* `after` is `before` with entries appended at the end; entries are missing
\* from the front only when the list would be longer than SnapshotLimit, and
\* then the most recent SnapshotLimit are left
AppendOnly(before, after) ==
    \E m \in 0..Len(after) :
        LET full == before \o SubSeq(after, Len(after) - m + 1, Len(after))
        IN  \/ after = full
            \/ Len(full) > SnapshotLimit /\ after = SliceLast(full, SnapshotLimit)

\* the snapshot list is handled as an append-only log by this step
AppendOnlyStep ==
    /\ snapshotsKind' = snapshotsKind
    /\ IF snapshotsKind = "array"
       THEN AppendOnly(snapshots, snapshots')
       ELSE snapshots' = snapshots

\* C19 as claimed: across every operation of the store the snapshot list stays
\* as it is or gets entries appended at the end, the oldest entries leaving from
\* the front only when the length would exceed 365.
C19_SnapshotsAppendOnly ==
    [][AppendOnlyStep]_vars

\* C19 as amended: the same across every operation except clearData, which
\* leaves the empty list, and an accepted importData, which leaves the list of
\* the imported file.
C19_SnapshotsAppendOnlyButClearAndImport ==
    [][ /\ call'.op = "clearData" => snapshots' = <<>> /\ snapshotsKind' = "array"
        /\ (call'.op = "importData" /\ call'.thrown = "none") =>
              /\ snapshots' = call'.arg.snapshots.items
              /\ snapshotsKind' = call'.arg.snapshots.kind
        /\ ~(call'.op = "clearData" \/ (call'.op = "importData" /\ call'.thrown = "none")) =>
              AppendOnlyStep ]_vars

\* C19 witness: an operation appended a snapshot to a full list, and the oldest
\* entries left from the front
C19_Witness ==
    /\ call.op \in {"recordSnapshot", "addAsset", "removeAsset", "refreshPrices"}
    /\ call.thrown = "none"
    /\ snapshotsKind = "array"
    /\ Len(snapshots) = SnapshotLimit
    /\ snapshots[1].id = <<"snapshot", SampleDays - 2>>
    /\ snapshots[SnapshotLimit].timestamp = now


-----------------------------------------------------------------------------
\* C20: refreshPrices commits its result in one step.  From the start of the
\* call until every fetch has resolved or failed, no turn of the call changes a
\* holding, in the active list or in a portfolio; the turn that follows the last
\* fetch replaces the active list, and the holdings of the active portfolio, by
\* the whole batch: every holding read at the start, repriced when its fetch
\* resolved and as it was when its fetch failed.  So no step of the call leaves
\* only some holdings carrying prices of the batch.
C20_RefreshCommitsInOneStep ==
    [][ /\ call'.op \in {"refreshPrices.start", "refreshPrices.fetched"}
            => assets' = assets /\ portfolios' = portfolios
        /\ call'.op = "refreshPrices.commit"
            => LET batch == refreshPricesUpdatedAssets(call'.arg.assets, call'.arg.fetched)
               IN  /\ AllResolved(call'.arg.fetched)
                   /\ assets' = batch
                   /\ \A k \in DOMAIN portfolios' :
                        portfolios'[k].assets =
                            IF portfolios[k].id = currentPortfolioId
                            THEN batch ELSE portfolios[k].assets
      ]_vars

\* a call whose two fetches came back in turns of their own, one of them
\* rejected, has committed its batch
C20_Witness ==
    /\ call.op = "refreshPrices.commit"
    /\ Len(call.arg.assets) = 2
    /\ \E i \in DOMAIN call.arg.fetched : call.arg.fetched[i] = Undefined
    /\ \E i \in DOMAIN call.arg.fetched : call.arg.fetched[i] = Z(4)
    /\ assets = refreshPricesUpdatedAssets(call.arg.assets, call.arg.fetched)
    /\ assets # call.arg.assets


-----------------------------------------------------------------------------
\* C21: every addAsset call that changes the local state hands one add-holding
\* request to the API client, for the active portfolio, carrying the added
\* ticker, the added quantity and the average price or, when there is none, the
\* current price.
C21_AddAssetIssuesRemoteAdd ==
    [][ call'.op = "addAsset" /\ call'.thrown # "TypeError"
            => requested' = << [api |-> "addAssetToPortfolio",
                                portfolioId |-> currentPortfolioId',
                                ticker |-> call'.arg.ticker,
                                quantity |-> call'.arg.quantity,
                                averagePrice |-> Or(call'.arg.averagePrice,
                                                    call'.arg.currentPrice)] >>
      ]_vars


-----------------------------------------------------------------------------
\* C22: in every state the active holdings list is the holdings list stored in
\* the portfolio whose id is currentPortfolioId.
C22_ActiveHoldingsAreThePortfoliosHoldings ==
    portfoliosKind = "array"
        => \E k \in DOMAIN portfolios :
              /\ portfolios[k].id = currentPortfolioId
              /\ portfolios[k].assets = assets


-----------------------------------------------------------------------------
\* the holdings held, by id and ticker
HeldSet(as) == {<<as[i].id, as[i].ticker>> : i \in DOMAIN as}

\* C23: no holding change is lost to a refresh.  The holdings in the store when
\* a refreshPrices call commits are those of the call's start changed by
\* whatever addAsset and removeAsset did meanwhile, so the commit must leave
\* held what was held just before it and absent what was absent: it reprices,
\* it adds and removes nothing.
C23_RefreshLosesNoHoldingChange ==
    [][ call'.op = "refreshPrices.commit" => HeldSet(assets') = HeldSet(assets) ]_vars


-----------------------------------------------------------------------------
\* C24: a refreshPrices call writes holdings only into the portfolio that was
\* active when it started.  Its commit leaves every other portfolio as it is,
\* and when another portfolio has become active meanwhile it leaves the active
\* holdings list as it is too.
C24_RefreshWritesOnlyItsOwnPortfolio ==
    [][ call'.op = "refreshPrices.commit"
            => /\ \A k \in DOMAIN portfolios :
                     portfolios[k].id # call'.arg.portfolioId
                        => portfolios'[k] = portfolios[k]
               /\ currentPortfolioId # call'.arg.portfolioId => assets' = assets
      ]_vars


-----------------------------------------------------------------------------
\* C25: in every state where `portfolios` is a list, the list is not empty and
\* currentPortfolioId is the id of one of its portfolios.
C25_ActivePortfolioExists ==
    portfoliosKind = "array"
        => /\ Len(portfolios) > 0
           /\ \E k \in DOMAIN portfolios : portfolios[k].id = currentPortfolioId


-----------------------------------------------------------------------------
\* no two elements of the list carry the same id
DistinctIds(s) == \A i, j \in DOMAIN s : s[i].id = s[j].id => i = j

\* C26: identifiers are unique.  No two holdings of the active list share an
\* id, and no two portfolios of the list share an id, whatever the clock read
\* when they were made.
C26_IdsAreUnique ==
    /\ DistinctIds(assets)
    /\ portfoliosKind = "array" => DistinctIds(portfolios)


-----------------------------------------------------------------------------
\* no two holdings of the list carry the same ticker
DistinctTickers(as) == \A i, j \in DOMAIN as : as[i].ticker = as[j].ticker => i = j

\* C27: from the empty holdings list, whatever addAsset, removeAsset,
\* mergeDuplicateAssets and the turns of refreshPrices calls do, in any order,
\* no two holdings of the active list share a ticker, and none of a list read
\* by a call in flight or stored in a portfolio do.
C27_OneHoldingPerTicker ==
    /\ DistinctTickers(assets)
    /\ \A r \in DOMAIN refreshes : DistinctTickers(refreshes[r].assets)
    /\ \A k \in DOMAIN portfolios : DistinctTickers(portfolios[k].assets)

\* while a refresh that read a ticker is in flight, that ticker has been added
\* again and merged into the holding
C27_Witness ==
    /\ Len(refreshes) >= 1
    /\ call.op = "addAsset"
    /\ \E i \in DOMAIN refreshes[1].assets : refreshes[1].assets[i].ticker = call.arg.ticker
    /\ \E k \in DOMAIN assets :
          /\ assets[k].ticker = call.arg.ticker
          /\ assets[k].quantity = Add(call.arg.quantity, call.arg.quantity)


-----------------------------------------------------------------------------
\* C28: isRefreshing is true exactly while a refreshPrices call is in flight:
\* in every state it is true when at least one call awaits its fetches and
\* false when none does.
C28_IsRefreshingWhileInFlight ==
    isRefreshing = (Len(refreshes) > 0)


-----------------------------------------------------------------------------
\* C29: when the backend rejects the credentials with a 401, signInWithEmail
\* returns false and a signed-out store stays signed out, without a user.
C29_RejectedCredentialsDoNotSignIn ==
    [][ ( /\ call'.op = "signInWithEmail"
          /\ call'.arg.response.kind = "unauthorized"
          /\ ~auth.isAuthenticated
          /\ auth.user = NoUser )
            => /\ auth'.returned = "false"
               /\ ~auth'.isAuthenticated
               /\ auth'.user = NoUser
      ]_vars


-----------------------------------------------------------------------------
\* C30: in every state of the theme store, currentTheme is the theme that
\* generateTheme yields for the config, the system colour scheme and the
\* premium flag the store holds.
C30_CurrentThemeIsGenerated ==
    theme.currentTheme =
        generateTheme(theme.config, theme.systemColorScheme, theme.isPremiumUser)

====
